---- MODULE Spec2Model ----
(***************************************************************************)
(* Relation-graph integrity engine of the document store:                 *)
(*   src/src/models/relations.py      registry, policy, cycle detector,    *)
(*                                    validator                            *)
(*   src/src/services/document_store.py  the graph store adapter           *)
(*   src/src/api/documents.py         the create / delete handlers         *)
(*                                    and the batch handlers               *)
(*   src/src/services/graph_store.py,                                      *)
(*   src/src/services/document_storage.py   find_paths                     *)
(* Documents are numbered 1, 2, ... in order of creation; a relation is    *)
(* the triple <<source, target, type>> (the key MERGE and DELETE match).   *)
(* relations is the store by its keys; graph is the store by its           *)
(* relationships, each with an identity and a properties map, and now is   *)
(* the clock created_at is read from.  The specifications of the           *)
(* validation rules follow the keys alone; SpecStore follows both.         *)
(* pending holds the locals of the calls of create_relation in progress,   *)
(* which only SpecRace, the specification of concurrent callers, changes.  *)
(***************************************************************************)
EXTENDS Integers, FiniteSets, Sequences

VARIABLES docs, relations, last, graph, now, pending

vars == <<docs, relations, last, graph, now, pending>>

(***************************************************************************)
(* Bounds of the model.                                                    *)
(***************************************************************************)
\* documents of the general specification
MaxDocs == 3
\* relations the general specification lets the store hold
MaxRels == 3
\* documents and relations of the specification with a failing store
PairDocs == 2
PairRels == 2
\* documents of the specifications that relate many documents to one
HubDocs == 7

NoDoc == 0
NoType == "NONE"

(***************************************************************************)
(* models/relations.py: RelationType and RELATION_METADATA                 *)
(***************************************************************************)
RelationType ==
    { "NEXT_STEP", "PREREQUISITE", "FOLLOWS",
      "REFERENCES", "CITED_BY",
      "RELATED_TO", "SIMILAR_TO", "ALTERNATIVE",
      "PARENT_OF", "CHILD_OF", "BELONGS_TO",
      "EXPLAINS", "IMPLEMENTS", "EXTENDS",
      "SOLVES", "CAUSES", "PREVENTS" }

Meta(b, req, inv) == [bidirectional |-> b, required_properties |-> req, inverse_relation |-> inv]

\* the twelve entries of the table; FOLLOWS, BELONGS_TO, EXTENDS, CAUSES and
\* PREVENTS have none
RELATION_METADATA ==
    [t \in { "NEXT_STEP", "PREREQUISITE", "REFERENCES", "CITED_BY", "RELATED_TO",
             "SIMILAR_TO", "ALTERNATIVE", "PARENT_OF", "CHILD_OF", "EXPLAINS",
             "IMPLEMENTS", "SOLVES" } |->
        CASE t = "NEXT_STEP"    -> Meta(FALSE, {"order"}, NoType)
          [] t = "PREREQUISITE" -> Meta(FALSE, {"importance"}, NoType)
          [] t = "REFERENCES"   -> Meta(FALSE, {"section"}, "CITED_BY")
          [] t = "CITED_BY"     -> Meta(FALSE, {"section"}, "REFERENCES")
          [] t = "RELATED_TO"   -> Meta(TRUE, {"type"}, NoType)
          [] t = "SIMILAR_TO"   -> Meta(TRUE, {"similarity_score"}, NoType)
          [] t = "ALTERNATIVE"  -> Meta(TRUE, {"scenario"}, NoType)
          [] t = "PARENT_OF"    -> Meta(FALSE, {}, "CHILD_OF")
          [] t = "CHILD_OF"     -> Meta(FALSE, {}, "PARENT_OF")
          [] t = "EXPLAINS"     -> Meta(FALSE, {"aspect"}, NoType)
          [] t = "IMPLEMENTS"   -> Meta(FALSE, {"version"}, NoType)
          [] t = "SOLVES"       -> Meta(FALSE, {"solution_type"}, NoType)]

\* validate_relation_properties: False without a metadata entry, else every
\* required key must be a key of the properties
validate_relation_properties(relation_type, properties) ==
    IF relation_type \notin DOMAIN RELATION_METADATA
    THEN FALSE
    ELSE \A required_prop \in RELATION_METADATA[relation_type].required_properties :
            required_prop \in properties

\* a registry whose inverse of a type is the type itself
get_inverse_relation_same_type(relation_type) ==
    IF relation_type \in DOMAIN RELATION_METADATA
       /\ RELATION_METADATA[relation_type].inverse_relation # NoType
    THEN relation_type
    ELSE NoType

get_inverse_relation(relation_type) ==
    IF relation_type \in DOMAIN RELATION_METADATA
       /\ RELATION_METADATA[relation_type].inverse_relation # NoType
    THEN RELATION_METADATA[relation_type].inverse_relation
    ELSE NoType

is_bidirectional(relation_type) ==
    IF relation_type \in DOMAIN RELATION_METADATA
    THEN RELATION_METADATA[relation_type].bidirectional
    ELSE FALSE

(***************************************************************************)
(* models/relations.py: RelationValidationConfig                           *)
(***************************************************************************)
MAX_RELATIONS_PER_DOC == 50
MAX_RELATION_DEPTH == 10

MAX_RELATIONS_BY_TYPE ==
    [t \in {"NEXT_STEP", "PREREQUISITE", "PARENT_OF", "CHILD_OF"} |->
        CASE t = "NEXT_STEP"    -> 1
          [] t = "PREREQUISITE" -> 5
          [] t = "PARENT_OF"    -> 100
          [] t = "CHILD_OF"     -> 1]

INCOMPATIBLE_RELATIONS ==
    [t \in {"PARENT_OF", "NEXT_STEP"} |->
        CASE t = "PARENT_OF" -> {"CHILD_OF"}
          [] t = "NEXT_STEP" -> {"PREREQUISITE"}]

(***************************************************************************)
(* services/document_store.py: the store adapter, as functions of the      *)
(* set of documents ds and the set of relations rels                       *)
(***************************************************************************)
\* get_document: the document, or None
get_document(ds, doc_id) == doc_id \in ds

\* DocumentStore.create_relation: MATCH both documents, MERGE the relationship;
\* a row comes back exactly when both documents were matched
DocumentStore_create_relation(ds, rels, doc_id1, doc_id2, relation_type) ==
    IF doc_id1 \in ds /\ doc_id2 \in ds
    THEN [row |-> TRUE, relations |-> rels \cup {<<doc_id1, doc_id2, relation_type>>}]
    ELSE [row |-> FALSE, relations |-> rels]

\* DocumentStore.delete_relation: DELETE the relationship d1 -[type]-> d2,
\* deleted_count > 0
DocumentStore_delete_relation(rels, doc_id1, doc_id2, relation_type) ==
    [deleted |-> <<doc_id1, doc_id2, relation_type>> \in rels,
     relations |-> rels \ {<<doc_id1, doc_id2, relation_type>>}]

\* one row of get_document_relations: d1 is always the document asked about,
\* d2 the node at the other end of the matched relationship r
Row(d1, d2, r) == [source_id |-> d1, target_id |-> d2, relation_type |-> r[3], r |-> r]

\* DocumentStore.get_document_relations(doc_id, relation_type, direction)
get_document_relations(rels, doc_id, relation_type, direction) ==
    LET matched ==
            IF direction = "incoming"
            THEN {Row(doc_id, r[1], r) : r \in {x \in rels : x[2] = doc_id}}
            ELSE IF direction = "outgoing"
            THEN {Row(doc_id, r[2], r) : r \in {x \in rels : x[1] = doc_id}}
            ELSE {Row(doc_id, IF r[1] = doc_id THEN r[2] ELSE r[1], r) :
                     r \in {x \in rels : x[1] = doc_id \/ x[2] = doc_id}}
    IN  IF relation_type = NoType
        THEN matched
        ELSE {row \in matched : row.relation_type = relation_type}

\* the rows of a result in the order the loop over them takes them
RECURSIVE RowSeq(_)
RowSeq(rows) ==
    IF rows = {} THEN <<>>
    ELSE LET row == CHOOSE x \in rows : TRUE IN <<row>> \o RowSeq(rows \ {row})

(***************************************************************************)
(* models/relations.py: policy, cycle detector, validator                  *)
(***************************************************************************)
\* a count check that lets a document reach one relation more than the
\* ceiling of the type
check_relation_count_above(doc_id, relation_type, current_count) ==
    IF current_count >= MAX_RELATIONS_PER_DOC
    THEN FALSE
    ELSE IF relation_type \in DOMAIN MAX_RELATIONS_BY_TYPE
            /\ current_count > MAX_RELATIONS_BY_TYPE[relation_type]
    THEN FALSE
    ELSE TRUE

check_relation_count(doc_id, relation_type, current_count) ==
    IF current_count >= MAX_RELATIONS_PER_DOC
    THEN FALSE
    ELSE IF relation_type \in DOMAIN MAX_RELATIONS_BY_TYPE
            /\ current_count >= MAX_RELATIONS_BY_TYPE[relation_type]
    THEN FALSE
    ELSE TRUE

\* a compatibility check that finds every type compatible
check_relation_compatibility_none(doc_id, target_id, relation_type, existing_relations) ==
    TRUE

check_relation_compatibility(doc_id, target_id, relation_type, existing_relations) ==
    LET incompatible_types ==
            IF relation_type \in DOMAIN INCOMPATIBLE_RELATIONS
            THEN INCOMPATIBLE_RELATIONS[relation_type]
            ELSE {}
    IN  \A relation \in existing_relations : relation.relation_type \notin incompatible_types

\* detect_circular_dependency with its shared visited set: the result is
\* [ret, visited], ret one of "True", "False" and "KeyError" (visited.remove
\* of an absent element)
RECURSIVE detect_circular_dependency(_, _, _, _, _)
RECURSIVE detect_each_relation(_, _, _, _, _)
\* a detector that looks one edge deep: a cycle only when the target has an
\* outgoing edge to the source
detect_direct_only(rels, doc_id, target_id, visited, depth) ==
    IF \E row \in get_document_relations(rels, target_id, NoType, "outgoing") :
           row.target_id = doc_id
    THEN [ret |-> "True", visited |-> visited]
    ELSE [ret |-> "False", visited |-> visited]

\* a detector that gives up one level deeper than MAX_RELATION_DEPTH
detect_depth_above(rels, doc_id, target_id, visited, depth) ==
    IF depth > MAX_RELATION_DEPTH
    THEN [ret |-> "True", visited |-> visited]
    ELSE IF target_id \in visited
    THEN [ret |-> "True", visited |-> visited]
    ELSE LET target_relations ==
                 RowSeq(get_document_relations(rels, target_id, NoType, "outgoing"))
             after == detect_each_relation(rels, target_id, target_relations,
                                           visited \cup {doc_id}, depth)
         IN  IF after.ret # "False"
             THEN after
             ELSE IF doc_id \in after.visited
             THEN [ret |-> "False", visited |-> after.visited \ {doc_id}]
             ELSE [ret |-> "KeyError", visited |-> after.visited]

\* a detector that leaves the documents it went through in the visited set
detect_no_backtracking(rels, doc_id, target_id, visited, depth) ==
    IF depth >= MAX_RELATION_DEPTH
    THEN [ret |-> "True", visited |-> visited]
    ELSE IF target_id \in visited
    THEN [ret |-> "True", visited |-> visited]
    ELSE LET target_relations ==
                 RowSeq(get_document_relations(rels, target_id, NoType, "outgoing"))
         IN  detect_each_relation(rels, target_id, target_relations,
                                  visited \cup {doc_id}, depth)

detect_circular_dependency(rels, doc_id, target_id, visited, depth) ==
    IF depth >= MAX_RELATION_DEPTH
    THEN [ret |-> "True", visited |-> visited]
    ELSE IF target_id \in visited
    THEN [ret |-> "True", visited |-> visited]
    ELSE LET target_relations ==
                 RowSeq(get_document_relations(rels, target_id, NoType, "outgoing"))
             after == detect_each_relation(rels, target_id, target_relations,
                                           visited \cup {doc_id}, depth)
         IN  IF after.ret # "False"
             THEN after
             ELSE IF doc_id \in after.visited
             THEN [ret |-> "False", visited |-> after.visited \ {doc_id}]
             ELSE [ret |-> "KeyError", visited |-> after.visited]

\* the for loop of detect_circular_dependency over target_relations
detect_each_relation(rels, target_id, target_relations, visited, depth) ==
    IF target_relations = <<>>
    THEN [ret |-> "False", visited |-> visited]
    ELSE LET found == detect_circular_dependency(rels, target_id,
                          Head(target_relations).target_id, visited, depth + 1)
         IN  IF found.ret # "False"
             THEN found
             ELSE detect_each_relation(rels, target_id, Tail(target_relations),
                                       found.visited, depth)

\* a validator that checks compatibility before the count
validate_compatibility_first(rels, doc_id, target_id, relation_type, properties) ==
    LET existing_relations == get_document_relations(rels, doc_id, NoType, "all")
        current_count ==
            Cardinality({r \in existing_relations : r.relation_type = relation_type})
        cyclic == detect_circular_dependency(rels, doc_id, target_id, {}, 0).ret
    IN  IF ~validate_relation_properties(relation_type, properties)
        THEN [is_valid |-> FALSE, reason |-> "MissingRequiredProperty"]
        ELSE IF ~check_relation_compatibility(doc_id, target_id, relation_type,
                                              existing_relations)
        THEN [is_valid |-> FALSE, reason |-> "IncompatibleRelation"]
        ELSE IF ~check_relation_count(doc_id, relation_type, current_count)
        THEN [is_valid |-> FALSE, reason |-> "CardinalityExceeded"]
        ELSE IF cyclic = "True"
        THEN [is_valid |-> FALSE, reason |-> "CyclicDependency"]
        ELSE IF cyclic = "KeyError"
        THEN [is_valid |-> FALSE, reason |-> "KeyError"]
        ELSE [is_valid |-> TRUE, reason |-> ""]

\* validate_relation_creation: (is_valid, reason); an exception of the cycle
\* detector leaves the validator as reason "KeyError"
validate_relation_creation(rels, doc_id, target_id, relation_type, properties) ==
    LET existing_relations == get_document_relations(rels, doc_id, NoType, "all")
        current_count ==
            Cardinality({r \in existing_relations : r.relation_type = relation_type})
        cyclic == detect_circular_dependency(rels, doc_id, target_id, {}, 0).ret
    IN  IF ~validate_relation_properties(relation_type, properties)
        THEN [is_valid |-> FALSE, reason |-> "MissingRequiredProperty"]
        ELSE IF ~check_relation_count(doc_id, relation_type, current_count)
        THEN [is_valid |-> FALSE, reason |-> "CardinalityExceeded"]
        ELSE IF ~check_relation_compatibility(doc_id, target_id, relation_type,
                                              existing_relations)
        THEN [is_valid |-> FALSE, reason |-> "IncompatibleRelation"]
        ELSE IF cyclic = "True"
        THEN [is_valid |-> FALSE, reason |-> "CyclicDependency"]
        ELSE IF cyclic = "KeyError"
        THEN [is_valid |-> FALSE, reason |-> "KeyError"]
        ELSE [is_valid |-> TRUE, reason |-> ""]

(***************************************************************************)
(* api/documents.py: the handlers.  The result is the response status and  *)
(* the relations the store holds when the handler returns.  fault names    *)
(* the store write that raises: "none", "primary" or "derived".  The       *)
(* status is the reason the handler raises; its except clause re-raises    *)
(* every exception, the HTTPExceptions included, with code 500 and the     *)
(* reason as detail.                                                       *)
(***************************************************************************)
Response(status, rels) == [status |-> status, relations |-> rels]

\* the relation the handler writes after the primary one: the same type the
\* other way round (bidirectional), else the inverse type, else none
\* a handler that derives a relation for the types with an inverse only
counterpart_inverse_only(relation_type) ==
    get_inverse_relation(relation_type)

counterpart(relation_type) ==
    IF is_bidirectional(relation_type)
    THEN relation_type
    ELSE get_inverse_relation(relation_type)

\* POST /documents/relations/
create_relation(ds, rels, source_id, target_id, relation_type, body_properties, fault) ==
    IF ~get_document(ds, source_id)
    THEN Response("SourceNotFound", rels)
    ELSE IF ~get_document(ds, target_id)
    THEN Response("TargetNotFound", rels)
    ELSE
      LET properties == body_properties \cup {"created_at"}
          valid == validate_relation_creation(rels, source_id, target_id,
                                              relation_type, properties)
          primary == DocumentStore_create_relation(ds, rels, source_id, target_id,
                                                   relation_type)
          derived == DocumentStore_create_relation(ds, primary.relations, target_id,
                                                   source_id, counterpart(relation_type))
      IN  IF ~valid.is_valid
          THEN Response(valid.reason, rels)
          ELSE IF fault = "primary"
          THEN Response("StoreError", rels)
          ELSE IF ~primary.row
          THEN Response("FailedToCreate", rels)
          ELSE IF counterpart(relation_type) = NoType
          THEN Response("ok", primary.relations)
          ELSE IF fault = "derived"
          THEN Response("StoreError", primary.relations)
          ELSE Response("ok", derived.relations)

\* the code of the response the client receives: the except clause of a
\* handler catches every exception raised in its try block, the
\* HTTPException(404) and HTTPException(400) the handler raises itself
\* included, and raises HTTPException(500) in its place
status_code(status) == IF status = "ok" THEN 200 ELSE 500

\* DELETE /documents/relations/{source_id}/{target_id}/{relation_type}
delete_relation(rels, source_id, target_id, relation_type) ==
    LET success == DocumentStore_delete_relation(rels, source_id, target_id, relation_type)
    IN  IF ~success.deleted
        THEN Response("RelationNotFound", rels)
        ELSE Response("ok", success.relations)

(***************************************************************************)
(* The state machine: one action per call, the calls serialized.  last is  *)
(* the response of the latest call: a created relation is echoed with its  *)
(* properties (RelationResponse); an error carries its detail, which names *)
(* the relation type for the three reasons whose message does.             *)
(***************************************************************************)
Call(op, source_id, target_id, relation_type, properties, status) ==
    [op |-> op, source_id |-> source_id, target_id |-> target_id,
     relation_type |-> relation_type, properties |-> properties, status |-> status]

TypedReasons == {"MissingRequiredProperty", "CardinalityExceeded", "IncompatibleRelation"}

\* the response of create_relation the caller sees
RelationResponse(source_id, target_id, relation_type, properties, status) ==
    IF status = "ok"
    THEN Call("create_relation", source_id, target_id, relation_type,
              properties \cup {"created_at"}, status)
    ELSE Call("create_relation", NoDoc, NoDoc,
              IF status \in TypedReasons THEN relation_type ELSE NoType, {}, status)

\* the callers whose calls of create_relation may be in progress at one time
MaxCallers == 2

Callers == 1..MaxCallers

\* the locals of a call of create_relation in progress: where it is (pc), the
\* relation of its body, and the existing_relations its validation read
InProgress(pc, source_id, target_id, relation_type, existing_relations) ==
    [pc |-> pc, source_id |-> source_id, target_id |-> target_id,
     relation_type |-> relation_type, existing_relations |-> existing_relations]

\* no call in progress
Idle == InProgress("idle", NoDoc, NoDoc, NoType, {})

Init ==
    /\ docs = {}
    /\ relations = {}
    /\ last = Call("init", NoDoc, NoDoc, NoType, {}, "ok")
    /\ graph = {}
    /\ now = 1
    /\ pending = [caller \in Callers |-> Idle]

\* POST /documents/: a document with a fresh identifier, at most n of them
CreateDocument(n) ==
    /\ Cardinality(docs) < n
    /\ docs' = docs \cup {Cardinality(docs) + 1}
    /\ relations' = relations
    /\ last' = Call("create_document", Cardinality(docs) + 1, NoDoc, NoType, {}, "ok")
    /\ UNCHANGED <<graph, now, pending>>

\* one call of create_relation; the store holds at most cap relations
CreateRelation(source_id, target_id, relation_type, properties, fault, cap) ==
    LET response == create_relation(docs, relations, source_id, target_id,
                                    relation_type, properties, fault)
    IN  /\ Cardinality(response.relations) <= cap
        /\ relations' = response.relations
        /\ last' = RelationResponse(source_id, target_id, relation_type,
                                    properties, response.status)
        /\ docs' = docs
        /\ UNCHANGED <<graph, now, pending>>

\* one call of delete_relation
DeleteRelation(source_id, target_id, relation_type) ==
    LET response == delete_relation(relations, source_id, target_id, relation_type)
    IN  /\ relations' = response.relations
        /\ last' = Call("delete_relation", NoDoc, NoDoc, NoType, {}, response.status)
        /\ docs' = docs
        /\ UNCHANGED <<graph, now, pending>>

\* the properties a caller sends with a relation of a type: none, or the
\* required ones and a description
PropertyInputs(relation_type) ==
    { {},
      {"description"} \cup (IF relation_type \in DOMAIN RELATION_METADATA
                            THEN RELATION_METADATA[relation_type].required_properties
                            ELSE {}) }

DocInputs == 1..MaxDocs

\* relation types the callers of the general specification use: a type with a
\* ceiling of 1 and an incompatible type, a type with a ceiling of 5, a
\* bidirectional type, a type with an inverse, a type without metadata
TypeInputs == {"NEXT_STEP", "PREREQUISITE", "RELATED_TO", "PARENT_OF", "FOLLOWS"}

\* the general specification: any caller, a store whose writes do not fail
Next ==
    \/ CreateDocument(MaxDocs)
    \/ \E s \in DocInputs, t \in DocInputs, ty \in TypeInputs :
          \E p \in PropertyInputs(ty) : CreateRelation(s, t, ty, p, "none", MaxRels)
    \/ \E s \in DocInputs, t \in DocInputs, ty \in TypeInputs :
          DeleteRelation(s, t, ty)

Spec == Init /\ [][Next]_vars

\* callers that relate the first PairDocs documents by the bidirectional types
\* and the types with an inverse, over a store whose primary or derived write
\* may raise
FaultInputs == {"none", "primary", "derived"}

PairedTypes ==
    {"RELATED_TO", "SIMILAR_TO", "ALTERNATIVE", "REFERENCES", "CITED_BY", "PARENT_OF", "CHILD_OF"}

PairInputs == 1..PairDocs

NextFault ==
    \/ CreateDocument(PairDocs)
    \/ \E s \in PairInputs, t \in PairInputs, ty \in PairedTypes :
          \E p \in PropertyInputs(ty), f \in FaultInputs :
              CreateRelation(s, t, ty, p, f, PairRels)
    \/ \E s \in PairInputs, t \in PairInputs, ty \in PairedTypes :
          DeleteRelation(s, t, ty)

SpecFault == Init /\ [][NextFault]_vars

\* many documents related to one: document 1 is the hub
HubInputs == 1..HubDocs

\* every caller points a PREREQUISITE relation at the hub
NextFanIn ==
    \/ CreateDocument(HubDocs)
    \/ \E s \in HubInputs : \E p \in PropertyInputs("PREREQUISITE") :
          CreateRelation(s, 1, "PREREQUISITE", p, "none", 2 * HubDocs)
    \/ \E s \in HubInputs : DeleteRelation(s, 1, "PREREQUISITE")

SpecFanIn == Init /\ [][NextFanIn]_vars

\* every caller relates the hub to another document
NextFanOut ==
    \/ CreateDocument(HubDocs)
    \/ \E t \in HubInputs, ty \in {"NEXT_STEP", "PREREQUISITE"} :
          \E p \in PropertyInputs(ty) : CreateRelation(1, t, ty, p, "none", 2 * HubDocs)
    \/ \E t \in HubInputs, ty \in {"NEXT_STEP", "PREREQUISITE"} :
          DeleteRelation(1, t, ty)

SpecFanOut == Init /\ [][NextFanOut]_vars

\* documents of the specification that sweeps the relations of one source
SweepDocs == 27

\* two types with a metadata entry, no inverse and no ceiling of their own
SweepTypes == {"EXPLAINS", "IMPLEMENTS"}

\* a caller relates document 1 to documents 2, 3, ... in turn, by each type
NextSweep ==
    \/ CreateDocument(SweepDocs)
    \/ \E ty \in SweepTypes : \E p \in PropertyInputs(ty) :
          CreateRelation(1, Cardinality({r \in relations : r[1] = 1 /\ r[3] = ty}) + 2,
                         ty, p, "none", 2 * SweepDocs)

SpecSweep == Init /\ [][NextSweep]_vars

(***************************************************************************)
(* services/document_store.py: the store by its relationships.  A          *)
(* relationship is [id, source_id, target_id, relation_type, properties],  *)
(* properties a map from keys to values.                                   *)
(***************************************************************************)
\* documents, create calls and property values of the specification of the
\* store by its relationships
StoreDocs == 2
MaxClock == 3
MaxValue == 2

\* the relationships of g from d1 to d2 of a type
Matching(g, doc_id1, doc_id2, relation_type) ==
    {r \in g : /\ r.source_id = doc_id1
               /\ r.target_id = doc_id2
               /\ r.relation_type = relation_type}

\* SET r += $properties: the keys of both maps, the new value where both
\* have one
SetPlus(old, properties) ==
    [k \in DOMAIN old \cup DOMAIN properties |->
        IF k \in DOMAIN properties THEN properties[k] ELSE old[k]]

\* an identity no relationship of g has
FreshId(g) == CHOOSE n \in 1..(Cardinality(g) + 1) : \A r \in g : r.id # n

\* a query that CREATEs a relationship whether or not one is matched
CREATE(ds, g, doc_id1, doc_id2, relation_type, properties) ==
    IF doc_id1 \in ds /\ doc_id2 \in ds
    THEN g \cup {[id |-> FreshId(g), source_id |-> doc_id1, target_id |-> doc_id2,
                  relation_type |-> relation_type, properties |-> properties]}
    ELSE g

\* the query of DocumentStore.create_relation: MATCH d1, MATCH d2,
\* MERGE (d1)-[r:type]->(d2), SET r += $properties
MERGE(ds, g, doc_id1, doc_id2, relation_type, properties) ==
    IF ~(doc_id1 \in ds /\ doc_id2 \in ds)
    THEN g
    ELSE IF Matching(g, doc_id1, doc_id2, relation_type) = {}
    THEN g \cup {[id |-> FreshId(g), source_id |-> doc_id1, target_id |-> doc_id2,
                  relation_type |-> relation_type, properties |-> properties]}
    ELSE {IF r \in Matching(g, doc_id1, doc_id2, relation_type)
          THEN [r EXCEPT !.properties = SetPlus(r.properties, properties)]
          ELSE r : r \in g}

\* the query of DocumentStore.delete_relation: MATCH (d1)-[r:type]->(d2) DELETE r
DELETE(g, doc_id1, doc_id2, relation_type) ==
    g \ Matching(g, doc_id1, doc_id2, relation_type)

\* the keys of the relationships of g
Keys(g) == {<<r.source_id, r.target_id, r.relation_type>> : r \in g}

\* properties["created_at"] = datetime.utcnow().isoformat()
WithCreatedAt(body_properties, created_at) ==
    [k \in DOMAIN body_properties \cup {"created_at"} |->
        IF k = "created_at" THEN created_at ELSE body_properties[k]]

\* one call of create_relation at the time now, the store followed by its
\* relationships as well: the primary MERGE, then the MERGE of the counterpart
CreateRelationStored(source_id, target_id, relation_type, body_properties) ==
    LET response == create_relation(docs, relations, source_id, target_id,
                                    relation_type, DOMAIN body_properties, "none")
        properties == WithCreatedAt(body_properties, now)
        primary == MERGE(docs, graph, source_id, target_id, relation_type, properties)
        derived == IF counterpart(relation_type) = NoType
                   THEN primary
                   ELSE MERGE(docs, primary, target_id, source_id,
                              counterpart(relation_type), properties)
    IN  /\ now < MaxClock
        /\ now' = now + 1
        /\ relations' = response.relations
        /\ graph' = IF response.status = "ok" THEN derived ELSE graph
        /\ last' = RelationResponse(source_id, target_id, relation_type,
                                    DOMAIN body_properties, response.status)
        /\ docs' = docs
        /\ pending' = pending

\* one call of delete_relation, the store followed by its relationships as well
DeleteRelationStored(source_id, target_id, relation_type) ==
    LET response == delete_relation(relations, source_id, target_id, relation_type)
    IN  /\ relations' = response.relations
        /\ graph' = DELETE(graph, source_id, target_id, relation_type)
        /\ last' = Call("delete_relation", NoDoc, NoDoc, NoType, {}, response.status)
        /\ docs' = docs
        /\ now' = now
        /\ pending' = pending

\* the properties maps a caller sends with a relation of a type: the required
\* keys, with a description or without, each key with the same value
StoreProperties(relation_type) ==
    {[k \in RELATION_METADATA[relation_type].required_properties \cup extra |-> v] :
        v \in 1..MaxValue, extra \in {{}, {"description"}}}

\* a type that can be created again on a stored triple, a bidirectional type
\* and a type with an inverse
StoreTypes == {"PREREQUISITE", "RELATED_TO", "PARENT_OF"}

StoreInputs == 1..StoreDocs

NextStore ==
    \/ CreateDocument(StoreDocs)
    \/ \E s \in StoreInputs, t \in StoreInputs, ty \in StoreTypes :
          \E p \in StoreProperties(ty) : CreateRelationStored(s, t, ty, p)
    \/ \E s \in StoreInputs, t \in StoreInputs, ty \in StoreTypes \cup {"CHILD_OF"} :
          DeleteRelationStored(s, t, ty)

SpecStore == Init /\ [][NextStore]_vars

\* the two views of the store agree
KeysAgree == relations = Keys(graph)

(***************************************************************************)
(* api/documents.py: the batch handlers.  An item of a batch of creations  *)
(* is [source_id, target_id, relation_type, properties, fault], fault the  *)
(* store write of the item that raises; an item of a batch of deletions is *)
(* a key.  results and errors are the two lists of the handler, an entry   *)
(* named by the position of its item in the batch.                         *)
(***************************************************************************)
\* documents of the specification of the batch handlers, and items of a batch
BatchDocs == 2
BatchLen == 2

\* the body of the loop of create_relations_batch for one item: the error it
\* appends ("" when it appends a result) and the relations it leaves
create_relations_batch_item(ds, rels, relation) ==
    IF ~get_document(ds, relation.source_id)
    THEN [error |-> "SourceNotFound", relations |-> rels]
    ELSE IF ~get_document(ds, relation.target_id)
    THEN [error |-> "TargetNotFound", relations |-> rels]
    ELSE
      LET properties == relation.properties \cup {"created_at"}
          valid == validate_relation_creation(rels, relation.source_id, relation.target_id,
                                              relation.relation_type, properties)
          primary == DocumentStore_create_relation(ds, rels, relation.source_id,
                                                   relation.target_id, relation.relation_type)
          derived == DocumentStore_create_relation(ds, primary.relations, relation.target_id,
                                                   relation.source_id,
                                                   counterpart(relation.relation_type))
      IN  IF ~valid.is_valid
          THEN [error |-> valid.reason, relations |-> rels]
          ELSE IF relation.fault = "primary"
          THEN [error |-> "StoreError", relations |-> rels]
          ELSE IF ~primary.row
          THEN [error |-> "FailedToCreate", relations |-> rels]
          ELSE IF counterpart(relation.relation_type) = NoType
          THEN [error |-> "", relations |-> primary.relations]
          ELSE IF relation.fault = "derived"
          THEN [error |-> "StoreError", relations |-> primary.relations]
          ELSE [error |-> "", relations |-> derived.relations]

\* what a batch handler returns: the relations the store holds, the two lists
BatchResponse(rels, results, errors) ==
    [status |-> IF errors = <<>> THEN "ok" ELSE "SomeFailed",
     relations |-> rels, results |-> results, errors |-> errors]

RECURSIVE create_relations_batch_abort(_, _, _, _, _, _)
RECURSIVE create_relations_batch(_, _, _, _, _, _)
\* a batch handler that gives up at the first item that fails
create_relations_batch_abort(ds, rels, batch, i, results, errors) ==
    IF i > Len(batch)
    THEN BatchResponse(rels, results, errors)
    ELSE LET item == create_relations_batch_item(ds, rels, batch[i])
         IN  IF item.error = ""
             THEN create_relations_batch_abort(ds, item.relations, batch, i + 1,
                                               Append(results, i), errors)
             ELSE BatchResponse(item.relations, results,
                                Append(errors, [item |-> i, error |-> item.error]))

\* POST /documents/relations/batch: the loop from item i on
create_relations_batch(ds, rels, batch, i, results, errors) ==
    IF i > Len(batch)
    THEN BatchResponse(rels, results, errors)
    ELSE LET item == create_relations_batch_item(ds, rels, batch[i])
         IN  IF item.error = ""
             THEN create_relations_batch(ds, item.relations, batch, i + 1,
                                         Append(results, i), errors)
             ELSE create_relations_batch(ds, item.relations, batch, i + 1,
                                         results,
                                         Append(errors, [item |-> i, error |-> item.error]))

\* DELETE /documents/relations/batch: the loop from item i on
RECURSIVE delete_relations_batch(_, _, _, _, _)
delete_relations_batch(rels, batch, i, results, errors) ==
    IF i > Len(batch)
    THEN BatchResponse(rels, results, errors)
    ELSE LET success == DocumentStore_delete_relation(rels, batch[i][1], batch[i][2],
                                                      batch[i][3])
         IN  IF success.deleted
             THEN delete_relations_batch(success.relations, batch, i + 1,
                                         Append(results, i), errors)
             ELSE delete_relations_batch(success.relations, batch, i + 1, results,
                                         Append(errors, [item |-> i,
                                                         error |-> "RelationNotFound"]))

\* the response of a batch handler the caller sees
BatchCall(op, response) ==
    [op |-> op, source_id |-> NoDoc, target_id |-> NoDoc, relation_type |-> NoType,
     properties |-> {}, status |-> response.status,
     results |-> response.results, errors |-> response.errors]

\* one call of create_relations_batch
CreateRelationsBatch(batch) ==
    LET response == create_relations_batch(docs, relations, batch, 1, <<>>, <<>>)
    IN  /\ relations' = response.relations
        /\ last' = BatchCall("create_relations_batch", response)
        /\ docs' = docs
        /\ UNCHANGED <<graph, now, pending>>

\* one call of delete_relations_batch
DeleteRelationsBatch(batch) ==
    LET response == delete_relations_batch(relations, batch, 1, <<>>, <<>>)
    IN  /\ relations' = response.relations
        /\ last' = BatchCall("delete_relations_batch", response)
        /\ docs' = docs
        /\ UNCHANGED <<graph, now, pending>>

BatchInputs == 1..BatchDocs

\* a type with a ceiling of 1 and a bidirectional type
BatchTypes == {"NEXT_STEP", "RELATED_TO"}

ItemInputs ==
    UNION {{[source_id |-> s, target_id |-> t, relation_type |-> ty,
             properties |-> p, fault |-> f] :
               s \in BatchInputs, t \in BatchInputs, p \in PropertyInputs(ty),
               f \in {"none", "derived"}} : ty \in BatchTypes}

KeyInputs == BatchInputs \X BatchInputs \X BatchTypes

\* the batches of at most BatchLen elements of a set
Batches(S) == UNION {[1..n -> S] : n \in 0..BatchLen}

NextBatch ==
    \/ CreateDocument(BatchDocs)
    \/ \E batch \in Batches(ItemInputs) : CreateRelationsBatch(batch)
    \/ \E batch \in Batches(KeyInputs) : DeleteRelationsBatch(batch)

SpecBatch == Init /\ [][NextBatch]_vars

(***************************************************************************)
(* services/graph_store.py and services/document_storage.py: find_paths.   *)
(* A path is the sequence of the relationships it follows; a variable      *)
(* length pattern matches the paths that repeat no relationship.           *)
(***************************************************************************)
\* documents of the specification of the path queries, and the deepest
\* max_depth a caller asks for
PathDocs == 3
MaxPathDepth == 2

\* the paths of 1 to hops relationships from document start to document end
\* that use no relationship of used, each relationship followed from its
\* source to its target (directed) or either way
RECURSIVE MatchPaths(_, _, _, _, _, _)
MatchPaths(rels, start, end, used, hops, directed) ==
    IF hops = 0
    THEN {}
    ELSE UNION {
           LET other == IF r[1] = start THEN r[2] ELSE r[1]
           IN  (IF other = end THEN {<<r>>} ELSE {})
               \cup {<<r>> \o rest :
                       rest \in MatchPaths(rels, other, end, used \cup {r}, hops - 1, directed)}
           : r \in {x \in rels \ used : x[1] = start \/ (~directed /\ x[2] = start)}}

\* ORDER BY length: the paths of each length in turn, the paths of one length
\* in the order the store yields them
RECURSIVE OrderByLength(_, _, _)
OrderByLength(paths, length, max_depth) ==
    IF length > max_depth
    THEN <<>>
    ELSE RowSeq({path \in paths : Len(path) = length})
             \o OrderByLength(paths, length + 1, max_depth)

\* LIMIT n
Limit(rows, n) == IF Len(rows) > n THEN SubSeq(rows, 1, n) ELSE rows

\* GraphStore._find_paths: MATCH path = (start)-[r*..max_depth]->(end)
\* RETURN ... ORDER BY distance
GraphStore_find_paths(ds, rels, start_id, end_id, max_depth) ==
    IF start_id \notin ds \/ end_id \notin ds
    THEN <<>>
    ELSE OrderByLength(MatchPaths(rels, start_id, end_id, {}, max_depth, TRUE),
                       1, max_depth)

\* DocumentStorage.find_paths: OPTIONAL MATCH p = (start)-[*1..max_depth]-(end)
\* ... ORDER BY path_length LIMIT 10
DocumentStorage_find_paths(ds, rels, start_id, end_id, max_depth) ==
    IF start_id \notin ds \/ end_id \notin ds
    THEN <<>>
    ELSE Limit(OrderByLength(MatchPaths(rels, start_id, end_id, {}, max_depth, FALSE),
                             1, max_depth), 10)

\* the lengths of the paths of a result, in its order
Lengths(paths) == [k \in DOMAIN paths |-> Len(paths[k])]

\* one call of find_paths of one of the two stores: the caller sees the paths
FindPaths(store, start_id, end_id, max_depth) ==
    LET paths == IF store = "GraphStore"
                 THEN GraphStore_find_paths(docs, relations, start_id, end_id, max_depth)
                 ELSE DocumentStorage_find_paths(docs, relations, start_id, end_id,
                                                 max_depth)
    IN  /\ last' = [op |-> "find_paths", source_id |-> start_id, target_id |-> end_id,
                    relation_type |-> NoType, properties |-> {}, status |-> "ok",
                    store |-> store, max_depth |-> max_depth, lengths |-> Lengths(paths)]
        /\ UNCHANGED <<docs, relations, graph, now, pending>>

PathInputs == 1..PathDocs

\* four types that can be stored side by side between two documents
PathTypes == {"PREREQUISITE", "EXPLAINS", "IMPLEMENTS", "SOLVES"}

\* callers relate each document to the next by any of the types, and ask for
\* the paths between any two documents
NextPaths ==
    \/ CreateDocument(PathDocs)
    \/ \E s \in PathInputs, ty \in PathTypes :
          CreateRelation(s, s + 1, ty, {"description"} \cup RELATION_METADATA[ty].required_properties, "none",
                         2 * Cardinality(PathTypes))
    \/ \E store \in {"GraphStore", "DocumentStorage"}, start_id \in PathInputs,
          end_id \in PathInputs, max_depth \in 1..MaxPathDepth :
          FindPaths(store, start_id, end_id, max_depth)

SpecPaths == Init /\ [][NextPaths]_vars

(***************************************************************************)
(* services/document_store.py, services/document_storage.py and            *)
(* api/documents.py: the queries that report the relations of a document   *)
(***************************************************************************)
\* documents of the specification of the queries, and the deepest max_depth a
\* caller asks for
TraverseDocs == 3
MaxTraverseDepth == 2

\* the MATCH of one relationship r at document doc_id, along the arrow of the
\* direction: d1 is bound to doc_id, d2 to the document at the other end
MatchOne(rels, doc_id, direction) ==
    IF direction = "outgoing"
    THEN {Row(doc_id, r[2], r) : r \in {x \in rels : x[1] = doc_id}}
    ELSE IF direction = "incoming"
    THEN {Row(doc_id, r[1], r) : r \in {x \in rels : x[2] = doc_id}}
    ELSE {Row(doc_id, IF r[1] = doc_id THEN r[2] ELSE r[1], r) :
             r \in {x \in rels : x[1] = doc_id \/ x[2] = doc_id}}

\* DocumentStore.traverse_relations: MATCH (d1 {id}) MATCH (d1)-[r]->(d2),
\* one relationship whatever max_depth is; relation_types = {} is no filter
DocumentStore_traverse_relations(rels, doc_id, direction, relation_types, max_depth) ==
    LET matched == MatchOne(rels, doc_id, direction)
    IN  IF relation_types = {}
        THEN matched
        ELSE {row \in matched : row.relation_type \in relation_types}

\* DocumentStorage.traverse_relations: OPTIONAL MATCH path =
\* (start)-[r]->(related) WHERE length(path) <= max_depth, the records
\* organised by their depth
DocumentStorage_traverse_relations(rels, start_id, relation_types, direction, max_depth) ==
    LET arrow == IF direction = "OUTGOING" THEN "outgoing"
                 ELSE IF direction = "INCOMING" THEN "incoming" ELSE "all"
        matched == {row \in MatchOne(rels, start_id, arrow) :
                       relation_types = {} \/ row.relation_type \in relation_types}
        records == {[id |-> row.target_id, depth |-> 1,
                     relation_types |-> <<row.relation_type>>] :
                       row \in {x \in matched : 1 <= max_depth}}
    IN  [depth \in {record.depth : record \in records} |->
            {[id |-> record.id, relation_types |-> record.relation_types] :
                record \in {x \in records : x.depth = depth}}]

\* GET /documents/{doc_id}/relations/traverse
traverse_relations(rels, doc_id, direction, relation_types, max_depth) ==
    DocumentStore_traverse_relations(rels, doc_id, direction, relation_types, max_depth)

\* the direction values of the two stores
StorageDirection(direction) ==
    IF direction = "outgoing" THEN "OUTGOING"
    ELSE IF direction = "incoming" THEN "INCOMING" ELSE "ALL"

\* one traversal, by the handler (DocumentStore) or by DocumentStorage: the
\* caller sees the rows of the one and the depth groups of the other
Traverse(store, doc_id, direction, max_depth) ==
    /\ last' = [op |-> "traverse_relations", source_id |-> doc_id, target_id |-> NoDoc,
                relation_type |-> NoType, properties |-> {}, status |-> "ok",
                store |-> store, direction |-> direction, max_depth |-> max_depth,
                rows |-> IF store = "DocumentStore"
                         THEN traverse_relations(relations, doc_id, direction, {},
                                                 max_depth)
                         ELSE {},
                depths |-> IF store = "DocumentStorage"
                           THEN DocumentStorage_traverse_relations(relations, doc_id, {},
                                    StorageDirection(direction), max_depth)
                           ELSE <<>>]
    /\ UNCHANGED <<docs, relations, graph, now, pending>>

\* GET /documents/{doc_id}/relations: 404 for a missing document, else the
\* rows of DocumentStore.get_document_relations
GetDocumentRelations(doc_id, direction) ==
    /\ last' = [op |-> "get_document_relations", source_id |-> doc_id,
                target_id |-> NoDoc, relation_type |-> NoType, properties |-> {},
                status |-> IF get_document(docs, doc_id) THEN "ok" ELSE "DocumentNotFound",
                direction |-> direction,
                rows |-> IF get_document(docs, doc_id)
                         THEN get_document_relations(relations, doc_id, NoType, direction)
                         ELSE {}]
    /\ UNCHANGED <<docs, relations, graph, now, pending>>

TraverseInputs == 1..TraverseDocs

Directions == {"outgoing", "incoming", "all"}

\* two types that can be stored side by side between two documents
TraverseTypes == {"EXPLAINS", "IMPLEMENTS"}

\* callers relate each document to the next and ask for the relations of any
\* document in any direction
NextTraverse ==
    \/ CreateDocument(TraverseDocs)
    \/ \E s \in TraverseInputs, ty \in TraverseTypes :
          CreateRelation(s, s + 1, ty,
                         {"description"} \cup RELATION_METADATA[ty].required_properties,
                         "none", 2 * Cardinality(TraverseTypes))
    \/ \E store \in {"DocumentStore", "DocumentStorage"}, doc_id \in TraverseInputs,
          direction \in Directions, max_depth \in 1..MaxTraverseDepth :
          Traverse(store, doc_id, direction, max_depth)
    \/ \E doc_id \in TraverseInputs, direction \in Directions :
          GetDocumentRelations(doc_id, direction)

SpecTraverse == Init /\ [][NextTraverse]_vars

(***************************************************************************)
(* api/documents.py, create_relation run by concurrent callers.  The       *)
(* handler holds no lock and opens no transaction: its reads (the checks   *)
(* and validate_relation_creation) and each of its two writes are separate *)
(* sessions of the store, so the calls of two server processes on one      *)
(* store interleave between them.                                          *)
(***************************************************************************)
\* documents of the specification of concurrent callers
RaceDocs == 3

\* the primary write of a call that re-validates before it writes
write_primary_revalidated(ds, rels, call) ==
    IF validate_relation_creation(rels, call.source_id, call.target_id,
                                  call.relation_type,
                                  RELATION_METADATA[call.relation_type].required_properties
                                      \cup {"created_at"}).is_valid
    THEN DocumentStore_create_relation(ds, rels, call.source_id, call.target_id,
                                       call.relation_type)
    ELSE [row |-> FALSE, relations |-> rels]

\* the primary write of a call that passed validation
write_primary(ds, rels, call) ==
    DocumentStore_create_relation(ds, rels, call.source_id, call.target_id,
                                  call.relation_type)

\* the derived write of a call whose primary write succeeded
write_derived(ds, rels, call) ==
    DocumentStore_create_relation(ds, rels, call.target_id, call.source_id,
                                  counterpart(call.relation_type))

\* a caller starts a call: the two existence checks and the validation read
\* the store; a failure is answered at once, a valid call goes on to write
Validate(caller, source_id, target_id, relation_type, properties) ==
    LET valid == validate_relation_creation(relations, source_id, target_id,
                                            relation_type, properties \cup {"created_at"})
        status == IF ~get_document(docs, source_id) THEN "SourceNotFound"
                  ELSE IF ~get_document(docs, target_id) THEN "TargetNotFound"
                  ELSE IF ~valid.is_valid THEN valid.reason ELSE "ok"
    IN  /\ pending[caller].pc \in {"idle", "done"}
        /\ pending' = [pending EXCEPT ![caller] =
              IF status = "ok"
              THEN InProgress("validated", source_id, target_id, relation_type,
                              get_document_relations(relations, source_id, NoType, "all"))
              ELSE Idle]
        /\ last' = IF status = "ok"
                   THEN last
                   ELSE RelationResponse(source_id, target_id, relation_type,
                                         properties, status)
        /\ UNCHANGED <<docs, relations, graph, now>>

\* the call of a caller goes on with its primary write, and returns when the
\* write failed or the type has no counterpart
WritePrimary(caller) ==
    LET call == pending[caller]
        primary == write_primary(docs, relations, call)
        returns == ~primary.row \/ counterpart(call.relation_type) = NoType
    IN  /\ call.pc = "validated"
        /\ relations' = primary.relations
        /\ pending' = [pending EXCEPT ![caller].pc =
              IF ~primary.row THEN "idle" ELSE IF returns THEN "done" ELSE "primary"]
        /\ last' = IF returns
                   THEN RelationResponse(call.source_id, call.target_id,
                            call.relation_type,
                            RELATION_METADATA[call.relation_type].required_properties,
                            IF primary.row THEN "ok" ELSE "FailedToCreate")
                   ELSE last
        /\ UNCHANGED <<docs, graph, now>>

\* the call of a caller ends with its derived write
WriteDerived(caller) ==
    LET call == pending[caller]
    IN  /\ call.pc = "primary"
        /\ relations' = write_derived(docs, relations, call).relations
        /\ pending' = [pending EXCEPT ![caller].pc = "done"]
        /\ last' = RelationResponse(call.source_id, call.target_id, call.relation_type,
                       RELATION_METADATA[call.relation_type].required_properties, "ok")
        /\ UNCHANGED <<docs, graph, now>>

\* the callers relate document 1 to the other documents
RaceTargets == 2..RaceDocs

\* a type with a ceiling of 1 and a type with a counterpart
RaceTypes == {"NEXT_STEP", "RELATED_TO"}

NextRace ==
    \/ CreateDocument(RaceDocs)
    \/ \E caller \in Callers, target_id \in RaceTargets, relation_type \in RaceTypes :
          Validate(caller, 1, target_id, relation_type,
                   RELATION_METADATA[relation_type].required_properties)
    \/ \E caller \in Callers : WritePrimary(caller)
    \/ \E caller \in Callers : WriteDerived(caller)

SpecRace == Init /\ [][NextRace]_vars

(***************************************************************************)
(* models/relations.py, detect_circular_dependency called on its own, as   *)
(* validate_relation_creation calls it: visited = None, depth = 0.         *)
(***************************************************************************)
\* documents of the specification of long chains: a path of
\* MAX_RELATION_DEPTH relations and a document off the path
ChainDocs == 12

\* one call detect_circular_dependency(doc_id, target_id, relation_type,
\* document_store): the caller sees True, False or the KeyError raised
Detect(doc_id, target_id) ==
    /\ last' = [op |-> "detect_circular_dependency", source_id |-> doc_id,
                target_id |-> target_id, relation_type |-> NoType, properties |-> {},
                status |-> detect_circular_dependency(relations, doc_id, target_id,
                                                      {}, 0).ret]
    /\ UNCHANGED <<docs, relations, graph, now, pending>>

ChainInputs == 1..ChainDocs

\* callers relate a document to the next one, and the detector is asked about
\* a relation from the first or the last document to any document
NextChain ==
    \/ CreateDocument(ChainDocs)
    \/ \E s \in ChainInputs :
          CreateRelation(s, s + 1, "EXPLAINS",
                         RELATION_METADATA["EXPLAINS"].required_properties, "none",
                         ChainDocs)
    \/ \E doc_id \in {1, ChainDocs}, target_id \in ChainInputs :
          Detect(doc_id, target_id)

SpecChain == Init /\ [][NextChain]_vars

\* documents and relations of the specification of branching graphs: a source,
\* a target, two branches that meet, and a document beyond where they meet
DiamondDocs == 6
DiamondRels == 5

DiamondInputs == 1..DiamondDocs

\* callers relate a document to a later one, and the detector is asked about a
\* relation from the first or the second document to any document
NextDiamond ==
    \/ CreateDocument(DiamondDocs)
    \/ \E s \in DiamondInputs, t \in DiamondInputs :
          /\ s < t
          /\ CreateRelation(s, t, "EXPLAINS",
                            RELATION_METADATA["EXPLAINS"].required_properties, "none",
                            DiamondRels)
    \/ \E doc_id \in {1, 2}, target_id \in DiamondInputs :
          Detect(doc_id, target_id)

SpecDiamond == Init /\ [][NextDiamond]_vars

(***************************************************************************)
(* Vocabulary of the claims, stated on the stored triples alone.           *)
(***************************************************************************)
SymmetricTypes == {"RELATED_TO", "SIMILAR_TO", "ALTERNATIVE"}

InverseBearingTypes == {"REFERENCES", "CITED_BY", "PARENT_OF", "CHILD_OF"}

InverseOf(ty) ==
    CASE ty = "REFERENCES" -> "CITED_BY"
      [] ty = "CITED_BY"   -> "REFERENCES"
      [] ty = "PARENT_OF"  -> "CHILD_OF"
      [] ty = "CHILD_OF"   -> "PARENT_OF"

\* the relation a symmetric or inverse-bearing relation is paired with
PairOf(r) ==
    <<r[2], r[1], IF r[3] \in SymmetricTypes THEN r[3] ELSE InverseOf(r[3])>>

Outgoing(d, ty) == {r \in relations : r[1] = d /\ r[3] = ty}

Incoming(d, ty) == {r \in relations : r[2] = d /\ r[3] = ty}

Touching(d) == {r \in relations : r[1] = d \/ r[2] = d}

Fresh(d) == Touching(d) = {}

\* the documents a path of one or more outgoing edges leads to from a
RECURSIVE ReachableFrom(_)
ReachableFrom(found) ==
    LET further == found \cup {r[2] : r \in {x \in relations : x[1] \in found}}
    IN  IF further = found THEN found ELSE ReachableFrom(further)

Reaches(a, b) == b \in ReachableFrom({r[2] : r \in {x \in relations : x[1] = a}})

Created == last.op = "create_relation" /\ last.status = "ok"

Rejected(reason) == last.op = "create_relation" /\ last.status = reason

LastRelation == <<last.source_id, last.target_id, last.relation_type>>

(***************************************************************************)
(* The claims.                                                             *)
(***************************************************************************)

\* C1: once create_relation has returned success for (A, B, T) with T one of
\* RELATED_TO, SIMILAR_TO, ALTERNATIVE, both (A, B, T) and (B, A, T) are in
\* the store, also when store writes of other calls have failed.
C1_SymmetricClosure ==
    (Created /\ last.relation_type \in SymmetricTypes)
        => (LastRelation \in relations /\ PairOf(LastRelation) \in relations)

C1_Witness ==
    /\ Created
    /\ last.relation_type \in SymmetricTypes
    /\ last.source_id # last.target_id
    /\ PairOf(LastRelation) \in relations

\* C2: once create_relation has returned success for (A, B, T) with T one of
\* REFERENCES, CITED_BY, PARENT_OF, CHILD_OF, the relation (B, A, inverse of T)
\* is in the store.
C2_InverseClosure ==
    (Created /\ last.relation_type \in InverseBearingTypes)
        => <<last.target_id, last.source_id, InverseOf(last.relation_type)>> \in relations

C2_Witness ==
    /\ Created
    /\ last.relation_type = "REFERENCES"
    /\ last.source_id # last.target_id
    /\ <<last.target_id, last.source_id, "CITED_BY">> \in relations

\* C3: in every reachable state, for every symmetric type T, (A, B, T) is in
\* the store if and only if (B, A, T) is.
C3_SymmetricPairInvariant ==
    \A r \in relations : r[3] \in SymmetricTypes => PairOf(r) \in relations

\* C4: a create_relation call leaves, of every pair of a symmetric or
\* inverse-bearing relation between two documents that it found absent from
\* the store, both relations or neither, whether it succeeds or fails (a
\* failed derived write is retried or the primary is removed again).
C4_PairedCommitAllOrNothing ==
    [][last'.op = "create_relation" =>
         \A a \in docs : \A b \in docs \ {a}, ty \in SymmetricTypes \cup InverseBearingTypes :
            (<<a, b, ty>> \notin relations /\ PairOf(<<a, b, ty>>) \notin relations)
                => (<<a, b, ty>> \in relations' <=> PairOf(<<a, b, ty>>) \in relations')]_vars

\* the properties a caller sends that hold key
With(ty, key) == {p \in PropertyInputs(ty) : key \in p}

\* d is the target of n PREREQUISITE relations from n documents that have no
\* other relation, and has no other relation itself
PrerequisiteTarget(d, n) ==
    /\ Touching(d) = Incoming(d, "PREREQUISITE")
    /\ Cardinality(Incoming(d, "PREREQUISITE")) = n
    /\ \A r \in Incoming(d, "PREREQUISITE") : r[1] # d /\ Touching(r[1]) = {r}

\* C5: onto a target D whose only relations are PREREQUISITE relations from n
\* fresh sources, the creation of a PREREQUISITE relation (S, D) with its
\* required property from a further fresh source succeeds while n < 5 and is
\* rejected with the cardinality-exceeded reason when n = 5.
C5_CardinalityCeilingOntoTarget ==
    [][\A d \in docs, n \in 0..5 : \A s \in docs \ {d} :
          \A p \in With("PREREQUISITE", "importance") :
             (/\ PrerequisiteTarget(d, n)
              /\ Fresh(s)
              /\ CreateRelation(s, d, "PREREQUISITE", p, "none", 2 * HubDocs))
                 => last'.status = (IF n < 5 THEN "ok" ELSE "CardinalityExceeded")]_vars

\* C6: when the store holds exactly (A, B, NEXT_STEP) and (B, C, NEXT_STEP),
\* the creation of (C, A, NEXT_STEP) with its required property is rejected
\* with the cyclic-dependency reason, and the creation of (C, D, NEXT_STEP) for
\* a fresh document D succeeds.
C6_CycleRejection ==
    [][\A a \in docs, b \in docs, c \in docs, d \in docs :
          \A p \in With("NEXT_STEP", "order") :
             (/\ Cardinality({a, b, c}) = 3
              /\ relations = {<<a, b, "NEXT_STEP">>, <<b, c, "NEXT_STEP">>})
                 => /\ CreateRelation(c, a, "NEXT_STEP", p, "none", MaxRels)
                          => last'.status = "CyclicDependency"
                    /\ (d \notin {a, b, c}
                        /\ CreateRelation(c, d, "NEXT_STEP", p, "none", MaxRels))
                          => last'.status = "ok"]_vars

\* C7: the creation of (A, B, PARENT_OF) between two fresh documents succeeds
\* and stores (B, A, CHILD_OF) too; while both are stored, the creation of
\* (B, A, PARENT_OF) is rejected with the incompatible-relation reason.
C7_Incompatibility ==
    \A a \in docs, p \in PropertyInputs("PARENT_OF") : \A b \in docs \ {a} :
        /\ (Fresh(a) /\ Fresh(b)) =>
               LET created == create_relation(docs, relations, a, b, "PARENT_OF", p, "none")
               IN  /\ created.status = "ok"
                   /\ created.relations =
                          relations \cup {<<a, b, "PARENT_OF">>, <<b, a, "CHILD_OF">>}
        /\ ({<<a, b, "PARENT_OF">>, <<b, a, "CHILD_OF">>} \subseteq relations) =>
               create_relation(docs, relations, b, a, "PARENT_OF", p, "none").status
                   = "IncompatibleRelation"

C7_Witness ==
    /\ Rejected("IncompatibleRelation")
    /\ last.relation_type = "PARENT_OF"
    /\ relations = {<<1, 2, "PARENT_OF">>, <<2, 1, "CHILD_OF">>}

\* the keys the registry lists as required for a type (none for a type the
\* registry does not list)
RequiredKeys(ty) ==
    IF ty \in DOMAIN RELATION_METADATA
    THEN RELATION_METADATA[ty].required_properties
    ELSE {}

\* C8: a creation between two existing documents is rejected with the
\* missing-required-property reason exactly when a key the type requires is
\* absent from the supplied properties; NEXT_STEP between two fresh documents
\* is rejected with no properties and accepted with order.
C8_RequiredProperty ==
    \A a \in docs, ty \in RelationType : \A b \in docs \ {a} :
        \A p \in PropertyInputs(ty) \cup {{"description"}} :
            /\ (create_relation(docs, relations, a, b, ty, p, "none").status
                    = "MissingRequiredProperty")
                   <=> (\E key \in RequiredKeys(ty) : key \notin p)
            /\ (Fresh(a) /\ Fresh(b) /\ ty = "NEXT_STEP" /\ "order" \in p)
                   => create_relation(docs, relations, a, b, ty, p, "none").status = "ok"

\* C9: for distinct S and T, while the store holds a path of outgoing edges
\* from T back to S, the creation of (S, T, type) is accepted for no type and
\* no properties; when the property, count and compatibility checks pass, the
\* reason is the cyclic-dependency one.
C9_CycleSoundness ==
    \A s \in docs : \A t \in docs \ {s} :
        Reaches(t, s) =>
            \A ty \in RelationType : \A p \in PropertyInputs(ty) :
                LET existing == get_document_relations(relations, s, NoType, "all")
                    count == Cardinality({r \in existing : r.relation_type = ty})
                    valid == validate_relation_creation(relations, s, t, ty,
                                                        p \cup {"created_at"})
                IN  /\ ~valid.is_valid
                    /\ create_relation(docs, relations, s, t, ty, p, "none").status # "ok"
                    /\ (/\ validate_relation_properties(ty, p)
                        /\ check_relation_count(s, ty, count)
                        /\ check_relation_compatibility(s, t, ty, existing))
                           => valid.reason = "CyclicDependency"

\* a creation was rejected as cyclic in a state where some document is reached
\* from another only by a path of two or more edges
C9_Witness ==
    /\ Rejected("CyclicDependency")
    /\ \E s \in docs : \E t \in docs \ {s} :
          /\ Reaches(t, s)
          /\ \A r \in relations : ~(r[1] = t /\ r[2] = s)
          /\ \E p \in With("PREREQUISITE", "importance") :
                create_relation(docs, relations, s, t, "PREREQUISITE", p, "none").status
                    = "CyclicDependency"

\* C10: no document has more than 1 outgoing NEXT_STEP relation or more than
\* 5 outgoing PREREQUISITE relations.
C10_TypeCeilings ==
    \A d \in docs :
        /\ Cardinality(Outgoing(d, "NEXT_STEP")) <= 1
        /\ Cardinality(Outgoing(d, "PREREQUISITE")) <= 5

\* a sixth PREREQUISITE relation from a document with five was refused
C10_Witness ==
    /\ Rejected("CardinalityExceeded")
    /\ last.relation_type = "PREREQUISITE"
    /\ \E d \in docs : Cardinality(Outgoing(d, "PREREQUISITE")) = 5

\* C11: no document has more than one outgoing CHILD_OF relation, the
\* CHILD_OF relations written as inverses of PARENT_OF included.
C11_SingleParent ==
    \A d \in docs : Cardinality(Outgoing(d, "CHILD_OF")) <= 1

\* C12: the outgoing relations of any one document, all types together, are
\* at most MAX_RELATIONS_PER_DOC.
C12_GlobalCeiling ==
    \A d \in docs : Cardinality({r \in relations : r[1] = d}) <= MAX_RELATIONS_PER_DOC

\* the relations of type ty that touch d as source or as target
TouchingOf(d, ty) == {r \in Touching(d) : r[3] = ty}

\* NEXT_STEP for PREREQUISITE and PREREQUISITE for NEXT_STEP
ExcludedBy(ty) == IF ty = "NEXT_STEP" THEN "PREREQUISITE" ELSE "NEXT_STEP"

\* C13: no document is an endpoint of a NEXT_STEP relation and of a
\* PREREQUISITE relation at once, and the creation of a relation of either
\* type from a document that a relation of the other type to or from another
\* document touches (and none of the proposed type) is rejected with the
\* incompatible-relation reason.
C13_MutualExclusion ==
    \A a \in docs :
        /\ TouchingOf(a, "NEXT_STEP") = {} \/ TouchingOf(a, "PREREQUISITE") = {}
        /\ \A ty \in {"NEXT_STEP", "PREREQUISITE"} : \A b \in docs \ {a} :
              \A p \in {q \in PropertyInputs(ty) : validate_relation_properties(ty, q)} :
                 (/\ TouchingOf(a, ExcludedBy(ty)) # {}
                  /\ TouchingOf(a, ty) = {}
                  /\ \A r \in Touching(a) : r[1] # r[2])
                    => create_relation(docs, relations, a, b, ty, p, "none").status
                           = "IncompatibleRelation"

\* the number of relations of type ty the validator counts for document a
CountedFor(a, ty) ==
    Cardinality({r \in get_document_relations(relations, a, NoType, "all") :
                    r.relation_type = ty})

\* the checks a proposal (a, b, ty, p) fails, each taken on its own
FailedChecks(a, b, ty, p) ==
    (IF a \notin docs THEN {"SourceNotFound"} ELSE {})
    \cup (IF b \notin docs THEN {"TargetNotFound"} ELSE {})
    \cup (IF ~validate_relation_properties(ty, p) THEN {"MissingRequiredProperty"} ELSE {})
    \cup (IF ~check_relation_count(a, ty, CountedFor(a, ty))
          THEN {"CardinalityExceeded"} ELSE {})
    \cup (IF ~check_relation_compatibility(a, b, ty,
                 get_document_relations(relations, a, NoType, "all"))
          THEN {"IncompatibleRelation"} ELSE {})
    \cup (IF detect_circular_dependency(relations, a, b, {}, 0).ret = "True"
          THEN {"CyclicDependency"} ELSE {})

\* the fixed order of the checks
CheckOrder ==
    <<"SourceNotFound", "TargetNotFound", "MissingRequiredProperty",
      "CardinalityExceeded", "IncompatibleRelation", "CyclicDependency">>

\* the first check in the fixed order among the failed ones
FirstFailure(failed) ==
    CheckOrder[CHOOSE i \in DOMAIN CheckOrder :
                  /\ CheckOrder[i] \in failed
                  /\ \A j \in 1..(i - 1) : CheckOrder[j] \notin failed]

\* the types a caller of the general specification proposes or finds stored
ProposedTypes == TypeInputs \cup {"CHILD_OF"}

\* C14: a proposal that fails one or more checks is answered with the reason
\* of the first failing check in the order source exists, target exists,
\* required properties, count, compatibility, cycle, and writes nothing.
C14_CheckPrecedence ==
    \A a \in DocInputs, b \in DocInputs, ty \in ProposedTypes :
        \A p \in PropertyInputs(ty) :
            LET response == create_relation(docs, relations, a, b, ty, p, "none")
                failed == FailedChecks(a, b, ty, p)
            IN  failed # {}
                    => /\ response.status = FirstFailure(failed)
                       /\ response.relations = relations

\* a creation was refused for the count in a state where the same proposal
\* fails the compatibility check and the cycle check as well
C14_Witness ==
    /\ Rejected("CardinalityExceeded")
    /\ \E a \in docs, b \in docs : \E p \in With("NEXT_STEP", "order") :
          /\ {"CardinalityExceeded", "IncompatibleRelation", "CyclicDependency"}
                 \subseteq FailedChecks(a, b, "NEXT_STEP", p)
          /\ create_relation(docs, relations, a, b, "NEXT_STEP", p, "none").status
                 = "CardinalityExceeded"

\* every property key the registry names, and one it does not
AllKeys ==
    UNION {RELATION_METADATA[t].required_properties : t \in DOMAIN RELATION_METADATA}
        \cup {"description"}

\* C15: every relation type has a metadata entry, and for every relation type
\* some properties map makes the creation between two fresh documents
\* succeed.
C15_RegistryTotality ==
    \A a \in docs : \A b \in docs \ {a} :
        (Fresh(a) /\ Fresh(b)) =>
            \A ty \in RelationType :
                /\ ty \in DOMAIN RELATION_METADATA
                /\ \E p \in SUBSET AllKeys :
                      create_relation(docs, relations, a, b, ty, p, "none").status = "ok"

\* C16: the store holds at most one relationship for a (source, target, type)
\* triple; a create call for a stored triple adds none.
C16_RelationIdentity ==
    \A r \in graph : \A q \in graph :
        (r.source_id = q.source_id /\ r.target_id = q.target_id
           /\ r.relation_type = q.relation_type) => r = q

\* a create call for a triple that was stored before it has succeeded
C16_Witness ==
    /\ Created
    /\ "description" \notin last.properties
    /\ \E r \in graph :
          /\ <<r.source_id, r.target_id, r.relation_type>> = LastRelation
          /\ "description" \in DOMAIN r.properties

\* C17: the properties of a stored relation, created_at included, stay as
\* they were from its creation to its deletion: no call changes the
\* properties of a relationship it finds in the store.
C17_NoUpdateInPlace ==
    [][\A r \in graph : \A q \in graph' :
          q.id = r.id => q.properties = r.properties]_vars

\* C18: delete_relation for a key that is not in the store is answered
\* 'not found' (code 404), not with the error of a failed store call, and
\* leaves the relations as they are.
C18_IdempotentAbsence ==
    [][\A s \in DocInputs, t \in DocInputs, ty \in ProposedTypes :
          (<<s, t, ty>> \notin relations /\ DeleteRelation(s, t, ty))
              => /\ last'.status = "RelationNotFound"
                 /\ status_code(last'.status) = 404
                 /\ relations' = relations]_vars

\* the relations that the single handlers leave after the first i items of a
\* batch of creations, each item handled in the state its predecessors left
RECURSIVE LeftByCreations(_, _)
LeftByCreations(batch, i) ==
    IF i = 0 THEN relations
    ELSE create_relation(docs, LeftByCreations(batch, i - 1), batch[i].source_id,
                         batch[i].target_id, batch[i].relation_type,
                         batch[i].properties, batch[i].fault).relations

\* the same for a batch of deletions
RECURSIVE LeftByDeletions(_, _)
LeftByDeletions(batch, i) ==
    IF i = 0 THEN relations
    ELSE delete_relation(LeftByDeletions(batch, i - 1),
                         batch[i][1], batch[i][2], batch[i][3]).relations

\* the positions a list of results or of errors names
Positions(results) == {results[k] : k \in DOMAIN results}

ErrorPositions(errors) == {errors[k].item : k \in DOMAIN errors}

\* each of the n items is in exactly one of the two lists, each list in the
\* order of the batch
EachItemOnce(n, response) ==
    /\ Positions(response.results) \cup ErrorPositions(response.errors) = 1..n
    /\ Positions(response.results) \cap ErrorPositions(response.errors) = {}
    /\ Len(response.results) + Len(response.errors) = n
    /\ \A k \in DOMAIN response.results : \A l \in DOMAIN response.results :
          k < l => response.results[k] < response.results[l]
    /\ \A k \in DOMAIN response.errors : \A l \in DOMAIN response.errors :
          k < l => response.errors[k].item < response.errors[l].item

\* C19: a batch handler takes the items in list order, each item ends in
\* exactly one of the two lists, and an item is committed exactly when the
\* single handler accepts it in the state the items before it left, whether
\* or not those failed.
C19_BatchIndependence ==
    /\ \A batch \in Batches(ItemInputs) :
          LET response == create_relations_batch(docs, relations, batch, 1, <<>>, <<>>)
          IN  /\ EachItemOnce(Len(batch), response)
              /\ response.relations = LeftByCreations(batch, Len(batch))
              /\ \A i \in 1..Len(batch) :
                    i \in Positions(response.results)
                       <=> create_relation(docs, LeftByCreations(batch, i - 1),
                                           batch[i].source_id, batch[i].target_id,
                                           batch[i].relation_type, batch[i].properties,
                                           batch[i].fault).status = "ok"
    /\ \A batch \in Batches(KeyInputs) :
          LET response == delete_relations_batch(relations, batch, 1, <<>>, <<>>)
          IN  /\ EachItemOnce(Len(batch), response)
              /\ response.relations = LeftByDeletions(batch, Len(batch))
              /\ \A i \in 1..Len(batch) :
                    i \in Positions(response.results)
                       <=> delete_relation(LeftByDeletions(batch, i - 1),
                                           batch[i][1], batch[i][2], batch[i][3]).status = "ok"

\* a batch of creations whose first item failed and whose second item was
\* committed
C19_Witness ==
    /\ last.op = "create_relations_batch"
    /\ last.results = <<2>>
    /\ ErrorPositions(last.errors) = {1}
    /\ relations # {}

\* the lengths never decrease along the result, each is between 1 and
\* max_depth, and there are at most 10
OrderedAndCapped(paths, max_depth) ==
    /\ \A k \in DOMAIN paths : \A l \in DOMAIN paths :
          k < l => Len(paths[k]) <= Len(paths[l])
    /\ \A k \in DOMAIN paths : Len(paths[k]) \in 1..max_depth
    /\ Len(paths) <= 10

\* C20: both find_paths implementations return their paths in non-decreasing
\* length order, every path with 1 to max_depth relationships, and at most
\* 10 of them, also when more than 10 paths exist.
C20_PathOrderingAndCap ==
    \A start_id \in docs, end_id \in docs, max_depth \in 1..MaxPathDepth :
        /\ OrderedAndCapped(DocumentStorage_find_paths(docs, relations, start_id,
                                                       end_id, max_depth), max_depth)
        /\ OrderedAndCapped(GraphStore_find_paths(docs, relations, start_id,
                                                  end_id, max_depth), max_depth)

\* the documents a path of exactly k relationships leads to from start, the
\* relationships followed along the direction
AtDepth(start, direction, k) ==
    {d \in docs \ {start} :
        \E path \in (IF direction = "outgoing"
                     THEN MatchPaths(relations, start, d, {}, k, TRUE)
                     ELSE IF direction = "incoming"
                     THEN MatchPaths(relations, d, start, {}, k, TRUE)
                     ELSE MatchPaths(relations, start, d, {}, k, FALSE)) :
            Len(path) = k}

\* the documents a traversal reported at depth k: a depth group of
\* DocumentStorage, the rows of DocumentStore (which carry no depth)
ReportedAt(response, k) ==
    IF response.store = "DocumentStorage"
    THEN IF k \in DOMAIN response.depths
         THEN {record.id : record \in response.depths[k]}
         ELSE {}
    ELSE {row.target_id : row \in response.rows}

\* C21: a traversal from start with max_depth d reports, for every k from 1
\* to d, every document that a path of k edges in the requested direction
\* leads to, and DocumentStorage reports nothing at a depth greater than d.
C21_BoundedMultiHopTraversal ==
    last.op = "traverse_relations" =>
        /\ \A k \in 1..last.max_depth :
              AtDepth(last.source_id, last.direction, k) \subseteq ReportedAt(last, k)
        /\ \A k \in DOMAIN last.depths : k <= last.max_depth

\* the calls of two callers that passed validation on the same relations
StaleTogether(a, b) ==
    /\ a # b
    /\ pending[a].source_id = pending[b].source_id
    /\ pending[a].target_id # pending[b].target_id
    /\ pending[a].relation_type = "NEXT_STEP"
    /\ pending[b].relation_type = "NEXT_STEP"
    /\ pending[a].existing_relations = pending[b].existing_relations

\* C22: nothing between the validation of a call and its write looks at the
\* store again: when a NEXT_STEP call from S has passed the count check and
\* another caller has committed a NEXT_STEP relation from S to a different
\* target since, the write of the call still commits, and S has 2 outgoing
\* NEXT_STEP relations although the ceiling is 1.
C22_BestEffortCeiling ==
    \A caller \in Callers :
        LET call == pending[caller]
        IN  (/\ call.pc = "validated"
             /\ call.relation_type = "NEXT_STEP"
             /\ \E r \in Outgoing(call.source_id, "NEXT_STEP") : r[2] # call.target_id)
            => Cardinality({r \in write_primary(docs, relations, call).relations :
                               r[1] = call.source_id /\ r[3] = "NEXT_STEP"}) >= 2

\* two callers validated NEXT_STEP relations from one source to two targets
\* on the same relation list, both have committed, and the source has 2
\* outgoing NEXT_STEP relations
C22_Witness ==
    \E a \in Callers, b \in Callers :
        /\ StaleTogether(a, b)
        /\ pending[a].pc = "done"
        /\ pending[b].pc = "done"
        /\ Cardinality(Outgoing(pending[a].source_id, "NEXT_STEP")) = 2
        /\ MAX_RELATIONS_BY_TYPE["NEXT_STEP"] = 1

\* the documents outgoing paths lead to from t, t included
From(t) == ReachableFrom({t})

\* no outgoing path from t comes back to a document it passed
AcyclicFrom(t) == \A d \in From(t) : ~Reaches(d, d)

\* the number of edges of the longest outgoing path from d, in an acyclic graph
RECURSIVE LongestPath(_)
LongestPath(d) ==
    LET next == {r[2] : r \in {x \in relations : x[1] = d}}
        longest == {LongestPath(n) : n \in next}
    IN  IF next = {} THEN 0
        ELSE 1 + CHOOSE l \in longest : \A m \in longest : m <= l

\* C23: for a proposal (S,T) with no cycle reachable from T and S not
\* reachable from T, the detector answers True when T has an outgoing path of
\* MAX_RELATION_DEPTH (10) or more edges, and does not answer True when the
\* longest outgoing path from T has at most 9 edges.
C23_FailClosedDepthLimit ==
    (/\ last.op = "detect_circular_dependency"
     /\ AcyclicFrom(last.target_id)
     /\ last.source_id \notin From(last.target_id))
    => IF LongestPath(last.target_id) >= MAX_RELATION_DEPTH
       THEN last.status = "True"
       ELSE last.status # "True"

\* the detector answered True for a target with an acyclic path of 10 edges
\* that does not lead to the source
C23_Witness ==
    /\ last.op = "detect_circular_dependency"
    /\ last.status = "True"
    /\ AcyclicFrom(last.target_id)
    /\ last.source_id \notin From(last.target_id)
    /\ LongestPath(last.target_id) >= MAX_RELATION_DEPTH

\* two outgoing branches from t meet in a document that has an outgoing
\* relation of its own
Diamond(t) ==
    \E c \in docs, d \in docs, e \in docs, f \in docs :
        /\ c # d
        /\ {<<t, c, "EXPLAINS">>, <<t, d, "EXPLAINS">>, <<c, e, "EXPLAINS">>,
            <<d, e, "EXPLAINS">>, <<e, f, "EXPLAINS">>} \subseteq relations

\* C24: when the graph reachable from the proposed target is acyclic and
\* shorter than the depth limit and the source is not reachable from the
\* target, the detector returns False, also when a document is reachable
\* from the target along two branches.
C24_Backtracking ==
    (/\ last.op = "detect_circular_dependency"
     /\ AcyclicFrom(last.target_id)
     /\ LongestPath(last.target_id) < MAX_RELATION_DEPTH
     /\ last.source_id \notin From(last.target_id))
    => last.status = "False"

\* the detector returned False for a target whose two branches meet
C24_Witness ==
    /\ last.op = "detect_circular_dependency"
    /\ Diamond(last.target_id)
    /\ AcyclicFrom(last.target_id)
    /\ last.source_id \notin From(last.target_id)
    /\ last.status = "False"

\* C25: the cardinality check of a proposed (S,T,NEXT_STEP) counts the
\* NEXT_STEP relations whose source is S only: the proposal is rejected for
\* cardinality only when S has an outgoing NEXT_STEP relation, and after
\* (A,B,NEXT_STEP) the creation of (B,C,NEXT_STEP) for a fresh C is not.
C25_CountBasis ==
    \A s \in docs, p \in With("NEXT_STEP", "order") : \A t \in docs \ {s} :
        LET status == create_relation(docs, relations, s, t, "NEXT_STEP", p, "none").status
        IN  /\ status = "CardinalityExceeded" => Outgoing(s, "NEXT_STEP") # {}
            /\ (/\ Fresh(t)
                /\ Outgoing(s, "NEXT_STEP") = {}
                /\ \E a \in docs \ {s, t} : <<a, s, "NEXT_STEP">> \in relations)
               => status # "CardinalityExceeded"

\* the relations of a are PARENT_OF relations to its children and the
\* CHILD_OF relations the handler derived from them
ParentOnly(a) ==
    /\ Outgoing(a, "PARENT_OF") # {}
    /\ \A r \in Outgoing(a, "PARENT_OF") : r[2] # a
    /\ Touching(a) = Outgoing(a, "PARENT_OF") \cup {PairOf(r) : r \in Outgoing(a, "PARENT_OF")}

\* C26: a document A whose relations are PARENT_OF relations to fewer than
\* 100 children (with their derived CHILD_OF relations) accepts a PARENT_OF
\* relation to a further, fresh document C.
C26_SeveralChildren ==
    \A a \in docs, p \in PropertyInputs("PARENT_OF") : \A c \in docs \ {a} :
        (/\ ParentOnly(a)
         /\ Cardinality(Outgoing(a, "PARENT_OF")) < MAX_RELATIONS_BY_TYPE["PARENT_OF"]
         /\ Fresh(c))
        => create_relation(docs, relations, a, c, "PARENT_OF", p, "none").status = "ok"

\* C27: the creation of a relation from a document to itself is never
\* accepted, and the store holds no relation from a document to itself.
C27_NoSelfRelations ==
    /\ \A r \in relations : r[1] # r[2]
    /\ \A a \in docs, ty \in ProposedTypes : \A p \in PropertyInputs(ty) :
          create_relation(docs, relations, a, a, ty, p, "none").status # "ok"

\* some outgoing path from t has MAX_RELATION_DEPTH relations
ReachesDepthLimit(t) ==
    \E d \in docs :
        \E path \in MatchPaths(relations, t, d, {}, MAX_RELATION_DEPTH, TRUE) :
            Len(path) = MAX_RELATION_DEPTH

\* C28: for distinct S and T the detector returns True only if S is reachable
\* from T along outgoing relations or an outgoing path from T reaches the
\* depth limit; a loop among other documents reachable from T is not enough
\* (stated for stores without a relation from a document to itself).
C28_DetectorPrecision ==
    (\A r \in relations : r[1] # r[2]) =>
        \A s \in docs : \A t \in docs \ {s} :
            detect_circular_dependency(relations, s, t, {}, 0).ret = "True"
                => (s \in From(t) \/ ReachesDepthLimit(t))

\* C29: for every pair of documents S and T, S = T included, the detector
\* returns a boolean: it raises no exception, and its removal from the
\* visited set never removes an element that is not in the set.
C29_DetectorTotality ==
    \A s \in docs, t \in docs :
        detect_circular_dependency(relations, s, t, {}, 0).ret \in {"True", "False"}

\* C30: every record that DocumentStore.get_document_relations or
\* DocumentStore.traverse_relations returns, in any direction, is a stored
\* relation with its orientation: the store holds the relation of the
\* record's type from the record's source_id to its target_id.
C30_ReportedRelationsAreRealEdges ==
    (/\ last.op \in {"get_document_relations", "traverse_relations"}
     /\ last.op = "traverse_relations" => last.store = "DocumentStore")
    => \A row \in last.rows :
          <<row.source_id, row.target_id, row.relation_type>> \in relations

====
